---- MODULE Spec2Model ----
(***************************************************************************)
(* Tic-Tac-Toe game controller of src/script.js: the module-scope game     *)
(* state, the two event handlers (cell click, restart) and the DOM state   *)
(* they write (status text, cell text and classes, board classes, score    *)
(* displays).  Events are handled one at a time, each handler running to   *)
(* completion, so every handler is one atomic action.                      *)
(***************************************************************************)
EXTENDS Integers, Sequences, FiniteSets, TLC

\* ---------------------------------------------------------------- bounds

\* Restart is offered only while fewer than MaxWins rounds have been won, so
\* the two score counters stay bounded.
MaxWins == 2

\* ------------------------------------------------------------- constants

\* Length of the gameState array literal.
NumCells == 9

\* parseInt() of a non-numeric data-cell-index attribute.  The handler only
\* ever uses the index as an array subscript, so NaN is encoded as an
\* integer that is not a subscript of any array of the program.
NaN == -99

Cells == 0 .. (NumCells - 1)

\* Values parseInt(data-cell-index) can hand to the click handler: the nine
\* cell indexes, one index below and one above the array, and NaN.
ClickIndexes == Cells \cup {-1, NumCells, NaN}

Players == {"X", "O"}

\* The board of line 25 / line 58: nine empty strings.
EmptyBoard == [i \in Cells |-> ""]

\* The combinations listed columns first.
winningConditionsColumnsFirst ==
    << <<0, 3, 6>>, <<1, 4, 7>>, <<2, 5, 8>>,
       <<0, 1, 2>>, <<3, 4, 5>>, <<6, 7, 8>>,
       <<0, 4, 8>>, <<2, 4, 6>> >>

\* The combinations without the second diagonal.
winningConditionsNoSecondDiagonal ==
    << <<0, 1, 2>>, <<3, 4, 5>>, <<6, 7, 8>>,
       <<0, 3, 6>>, <<1, 4, 7>>, <<2, 5, 8>>,
       <<0, 4, 8>> >>

\* All 8 winning combinations, in the order of the array literal.
winningConditions ==
    << <<0, 1, 2>>, <<3, 4, 5>>, <<6, 7, 8>>,
       <<0, 3, 6>>, <<1, 4, 7>>, <<2, 5, 8>>,
       <<0, 4, 8>>, <<2, 4, 6>> >>

\* A win message that names the other player.
winMessageOther(p) == IF p = "X" THEN "Player O has won!" ELSE "Player X has won!"

\* The message templates, evaluated for a given currentPlayer.
winMessage(p) == IF p = "X" THEN "Player X has won!" ELSE "Player O has won!"

drawMessage == "Game ended in a draw!"

currentPlayerTurn(p) == IF p = "X" THEN "It's X's turn" ELSE "It's O's turn"

\* ----------------------------------------------------------------- state

VARIABLES
    gameActive,           \* let gameActive
    currentPlayer,        \* let currentPlayer
    gameState,            \* let gameState: Cells -> {"", "X", "O"}
    playerXScore,         \* let playerXScore
    playerOScore,         \* let playerOScore
    statusDisplay,        \* statusDisplay.textContent
    cellText,             \* cells[i].textContent
    cellClasses,          \* cells[i].classList, restricted to x / o / winning-cell
    boardClasses,         \* gameBoard.classList, restricted to turn-x / turn-o
    playerXScoreDisplay,  \* playerXScoreDisplay.textContent: <<>> is the page's markup, <<n>> the number written
    playerOScoreDisplay,  \* playerOScoreDisplay.textContent, likewise
    \* history variables, written by no handler and read by none
    lastEvent,            \* the event handled last: [op, index, accepted]
    moveCount,            \* accepted moves since the last restart
    trace,                \* accepted indexes since the last restart while they follow a scenario, else OffScript
    gameStartScore,       \* <<playerXScore, playerOScore>> at the last restart
    wonCount              \* rounds that ended in a win since the page loaded

progVars == <<gameActive, currentPlayer, gameState, playerXScore, playerOScore,
              statusDisplay, cellText, cellClasses, boardClasses,
              playerXScoreDisplay, playerOScoreDisplay>>

histVars == <<lastEvent, moveCount, trace, gameStartScore, wonCount>>

vars == <<gameActive, currentPlayer, gameState, playerXScore, playerOScore,
          statusDisplay, cellText, cellClasses, boardClasses,
          playerXScoreDisplay, playerOScoreDisplay,
          lastEvent, moveCount, trace, gameStartScore, wonCount>>

\* ------------------------------------------------------ scenario tracking

DrawScript == <<0, 1, 2, 4, 3, 5, 7, 6, 8>>

WinScript == <<0, 3, 1, 4, 2>>

CentreScript == <<4>>

Scenarios == {DrawScript, WinScript, CentreScript}

OffScript == <<NaN>>

IsPrefix(s, t) == Len(s) <= Len(t) /\ \A k \in 1 .. Len(s) : s[k] = t[k]

Extend(tr, i) ==
    IF tr # OffScript /\ \E s \in Scenarios : IsPrefix(Append(tr, i), s)
    THEN Append(tr, i)
    ELSE OffScript

\* ---------------------------------------------------------------- helpers

\* A read that treats a missing element as the empty string.
LookupFalsy(arr, i) == IF i \in DOMAIN arr THEN arr[i] ELSE ""

\* gameState[clickedCellIndex]: a subscript that is not an index of the
\* array reads as undefined.
Lookup(arr, i) == IF i \in DOMAIN arr THEN arr[i] ELSE "undefined"

\* The validation without its first test.
RejectedIgnoringOccupied(i) == ~gameActive

\* The validation without its second test.
RejectedIgnoringActive(i) == Lookup(gameState, i) # ""

\* The validation with its first test inverted.
RejectedInverted(i) == Lookup(gameState, i) = "" \/ ~gameActive

\* The validation of handleCellClick: the early return is taken.
Rejected(i) == Lookup(gameState, i) # "" \/ ~gameActive

\* gameState[clickedCellIndex] = currentPlayer.  A write under a subscript
\* outside 0..8 leaves the nine cells as they are.
Played(board, i, p) == IF i \in DOMAIN board THEN [board EXCEPT ![i] = p] ELSE board

\* A result validation that tests for the draw before it looks for a win:
\* on a full board no combination is examined.
RECURSIVE CheckFromDrawFirst(_, _)
CheckFromDrawFirst(board, k) ==
    IF k > Len(winningConditions) \/ ~\E i \in DOMAIN board : board[i] = ""
    THEN [roundWon |-> FALSE, winningLine |-> <<>>]
    ELSE LET a == winningConditions[k][1]
             b == winningConditions[k][2]
             c == winningConditions[k][3]
         IN  IF board[a] # "" /\ board[a] = board[b] /\ board[b] = board[c]
             THEN [roundWon |-> TRUE, winningLine |-> <<a, b, c>>]
             ELSE CheckFromDrawFirst(board, k + 1)

\* The for loop of handleResultValidation from condition k on (1-based):
\* the first condition whose three cells are non-empty and equal.
RECURSIVE CheckFrom(_, _)
CheckFrom(board, k) ==
    IF k > Len(winningConditions)
    THEN [roundWon |-> FALSE, winningLine |-> <<>>]
    ELSE LET a == winningConditions[k][1]
             b == winningConditions[k][2]
             c == winningConditions[k][3]
             posA == board[a]
             posB == board[b]
             posC == board[c]
         IN  IF posA = "" \/ posB = "" \/ posC = ""
             THEN CheckFrom(board, k + 1)
             ELSE IF posA = posB /\ posB = posC
                  THEN [roundWon |-> TRUE, winningLine |-> <<a, b, c>>]
                  ELSE CheckFrom(board, k + 1)

\* A draw test that never fires.
roundDrawNever(board) == FALSE

\* !gameState.includes("")
roundDraw(board) == ~\E i \in DOMAIN board : board[i] = ""

\* A player change that keeps the player.
NextPlayerSame(p) == p

\* currentPlayer === "X" ? "O" : "X"
NextPlayer(p) == IF p = "X" THEN "O" ELSE "X"

\* An updateScore that credits both players.
updateScoreBoth(p, xs, os) == <<xs + 1, os + 1>>

\* An updateScore that credits the other player.
updateScoreSwapped(p, xs, os) == IF p = "X" THEN <<xs, os + 1>> ELSE <<xs + 1, os>>

\* updateScore: the two counters after the win of p.
updateScore(p, xs, os) == IF p = "X" THEN <<xs + 1, os>> ELSE <<xs, os + 1>>

\* A toggle that only ever adds the class.
toggleAddOnly(S, c) == S \cup {c}

\* classList.toggle(c)
toggle(S, c) == IF c \in S THEN S \ {c} ELSE S \cup {c}

\* String.prototype.toLowerCase on a player mark.
toLowerCase(p) == IF p = "X" THEN "x" ELSE "o"

\* ------------------------------------------------- the specification's view

Board == gameState

Turn == currentPlayer

Highlighted == {i \in Cells : "winning-cell" \in cellClasses[i]}

\* GameStatus as the page shows it: InProgress while gameActive, otherwise
\* Won(mark, triple) when the status line is a win message (mark is the
\* player it names, triple the highlighted cells) and Draw when not.
GameStatus ==
    IF gameActive THEN [tag |-> "InProgress", mark |-> "", triple |-> {}]
    ELSE IF \E p \in Players : statusDisplay = winMessage(p)
         THEN [tag |-> "Won",
               mark |-> CHOOSE p \in Players : statusDisplay = winMessage(p),
               triple |-> Highlighted]
         ELSE [tag |-> "Draw", mark |-> "", triple |-> {}]

winsX == playerXScore

winsO == playerOScore

\* ------------------------------------------------------------------ Init

\* The state once the DOMContentLoaded callback has run: the declarations of
\* lines 23-29 followed by the handleRestartGame() call of line 208.
Init ==
    /\ gameActive = TRUE
    /\ currentPlayer = "X"
    /\ gameState = EmptyBoard
    /\ playerXScore = 0
    /\ playerOScore = 0
    /\ statusDisplay = currentPlayerTurn("X")
    /\ cellText = [i \in Cells |-> ""]
    /\ cellClasses = [i \in Cells |-> {}]
    /\ boardClasses = {"turn-x"}
    /\ playerXScoreDisplay = <<>>
    /\ playerOScoreDisplay = <<>>
    /\ lastEvent = [op |-> "load", index |-> NaN, accepted |-> TRUE]
    /\ moveCount = 0
    /\ trace = <<>>
    /\ gameStartScore = <<0, 0>>
    /\ wonCount = 0

\* --------------------------------------------------------------- actions

\* A restart that also clears the scoreboard.
handleRestartGameClearingScore ==
    /\ playerXScore + playerOScore < MaxWins
    /\ gameActive' = TRUE
    /\ currentPlayer' = "X"
    /\ gameState' = EmptyBoard
    /\ statusDisplay' = currentPlayerTurn("X")
    /\ cellText' = [i \in Cells |-> ""]
    /\ cellClasses' = [i \in Cells |-> cellClasses[i] \ {"x", "o", "winning-cell"}]
    /\ boardClasses' = (boardClasses \ {"turn-o"}) \cup {"turn-x"}
    /\ playerXScore' = 0
    /\ playerOScore' = 0
    /\ UNCHANGED <<playerXScoreDisplay, playerOScoreDisplay>>
    /\ lastEvent' = [op |-> "restart", index |-> NaN, accepted |-> TRUE]
    /\ moveCount' = 0
    /\ trace' = <<>>
    /\ gameStartScore' = <<playerXScore', playerOScore'>>
    /\ UNCHANGED wonCount

\* A restart that leaves the winning-cell class on the cells.
handleRestartGameKeepingHighlight ==
    /\ playerXScore + playerOScore < MaxWins
    /\ gameActive' = TRUE
    /\ currentPlayer' = "X"
    /\ gameState' = EmptyBoard
    /\ statusDisplay' = currentPlayerTurn("X")
    /\ cellText' = [i \in Cells |-> ""]
    /\ cellClasses' = [i \in Cells |-> cellClasses[i] \ {"x", "o"}]
    /\ boardClasses' = (boardClasses \ {"turn-o"}) \cup {"turn-x"}
    /\ UNCHANGED <<playerXScore, playerOScore, playerXScoreDisplay, playerOScoreDisplay>>
    /\ lastEvent' = [op |-> "restart", index |-> NaN, accepted |-> TRUE]
    /\ moveCount' = 0
    /\ trace' = <<>>
    /\ gameStartScore' = <<playerXScore', playerOScore'>>
    /\ UNCHANGED wonCount

\* handleRestartGame, the click handler of the restart button.
handleRestartGame ==
    /\ playerXScore + playerOScore < MaxWins
    /\ gameActive' = TRUE
    /\ currentPlayer' = "X"
    /\ gameState' = EmptyBoard
    /\ statusDisplay' = currentPlayerTurn("X")
    /\ cellText' = [i \in Cells |-> ""]
    /\ cellClasses' = [i \in Cells |-> cellClasses[i] \ {"x", "o", "winning-cell"}]
    /\ boardClasses' = (boardClasses \ {"turn-o"}) \cup {"turn-x"}
    /\ UNCHANGED <<playerXScore, playerOScore, playerXScoreDisplay, playerOScoreDisplay>>
    /\ lastEvent' = [op |-> "restart", index |-> NaN, accepted |-> TRUE]
    /\ moveCount' = 0
    /\ trace' = <<>>
    /\ gameStartScore' = <<playerXScore', playerOScore'>>
    /\ UNCHANGED wonCount

\* handleCellClick when the validation returns early.
ClickRejected(i) ==
    /\ Rejected(i)
    /\ UNCHANGED progVars
    /\ lastEvent' = [op |-> "click", index |-> i, accepted |-> FALSE]
    /\ UNCHANGED <<moveCount, trace, gameStartScore, wonCount>>

\* handleCellClick past the validation: handleCellPlayed, then
\* handleResultValidation with its three exits (win, draw, player change).
ClickAccepted(i) ==
    /\ ~Rejected(i)
    /\ LET board == Played(gameState, i, currentPlayer)
           res == CheckFrom(board, 1)
           line == {res.winningLine[k] : k \in 1 .. Len(res.winningLine)}
           marked == IF i \in Cells
                     THEN [cellClasses EXCEPT ![i] = @ \cup {toLowerCase(currentPlayer)}]
                     ELSE cellClasses
           score == updateScore(currentPlayer, playerXScore, playerOScore)
       IN  /\ gameState' = board
           /\ cellText' = IF i \in Cells THEN [cellText EXCEPT ![i] = currentPlayer] ELSE cellText
           /\ \/ /\ res.roundWon
                 /\ statusDisplay' = winMessage(currentPlayer)
                 /\ gameActive' = FALSE
                 /\ playerXScore' = score[1]
                 /\ playerOScore' = score[2]
                 /\ playerXScoreDisplay' =
                        IF currentPlayer = "X" THEN <<score[1]>> ELSE playerXScoreDisplay
                 /\ playerOScoreDisplay' =
                        IF currentPlayer = "X" THEN playerOScoreDisplay ELSE <<score[2]>>
                 /\ cellClasses' = [c \in Cells |->
                        IF c \in line THEN marked[c] \cup {"winning-cell"} ELSE marked[c]]
                 /\ boardClasses' = boardClasses \ {"turn-x", "turn-o"}
                 /\ UNCHANGED currentPlayer
              \/ /\ ~res.roundWon
                 /\ roundDraw(board)
                 /\ statusDisplay' = drawMessage
                 /\ gameActive' = FALSE
                 /\ cellClasses' = marked
                 /\ boardClasses' = boardClasses \ {"turn-x", "turn-o"}
                 /\ UNCHANGED <<currentPlayer, playerXScore, playerOScore,
                                playerXScoreDisplay, playerOScoreDisplay>>
              \/ /\ ~res.roundWon
                 /\ ~roundDraw(board)
                 /\ currentPlayer' = NextPlayer(currentPlayer)
                 /\ statusDisplay' = currentPlayerTurn(currentPlayer')
                 /\ cellClasses' = marked
                 /\ boardClasses' = toggle(toggle(boardClasses, "turn-x"), "turn-o")
                 /\ UNCHANGED <<gameActive, playerXScore, playerOScore,
                                playerXScoreDisplay, playerOScoreDisplay>>
    /\ lastEvent' = [op |-> "click", index |-> i, accepted |-> TRUE]
    /\ moveCount' = moveCount + 1
    /\ trace' = Extend(trace, i)
    /\ wonCount' = IF GameStatus.tag = "InProgress" /\ GameStatus'.tag = "Won"
                   THEN wonCount + 1 ELSE wonCount
    /\ UNCHANGED gameStartScore

\* handleCellClick, the click handler of every cell.
handleCellClick(i) == ClickRejected(i) \/ ClickAccepted(i)

Next ==
    \/ \E i \in ClickIndexes : handleCellClick(i)
    \/ handleRestartGame

Spec == Init /\ [][Next]_vars

\* One game from the loaded page on, the restart button left alone.
NextGame == \E i \in ClickIndexes : handleCellClick(i)

\* Clicks on Empty cells keep coming: a move that stays possible is
\* eventually made.
GameSpec == Init /\ [][NextGame]_vars /\ WF_vars(\E i \in Cells : ClickAccepted(i))

\* ------------------------------------------------------------ type check

TypeOK ==
    /\ gameActive \in BOOLEAN
    /\ currentPlayer \in Players
    /\ gameState \in [Cells -> {"", "X", "O"}]
    /\ playerXScore \in 0 .. MaxWins
    /\ playerOScore \in 0 .. MaxWins
    /\ boardClasses \subseteq {"turn-x", "turn-o"}

\* ------------------------------------------------ vocabulary of the claims

\* The eight winning triples in the order the specification states them:
\* rows top to bottom, columns left to right, the two diagonals.
Triples ==
    << {0, 1, 2}, {3, 4, 5}, {6, 7, 8},
       {0, 3, 6}, {1, 4, 7}, {2, 5, 8},
       {0, 4, 8}, {2, 4, 6} >>

MarkedBy(m) == {i \in Cells : Board[i] = m}

\* Triple number k holds three equal non-Empty marks.
Aligned(k) == \E m \in Players : Triples[k] \subseteq MarkedBy(m)

AlignedSet == {k \in 1 .. Len(Triples) : Aligned(k)}

FirstAligned == CHOOSE k \in AlignedSet : \A j \in AlignedSet : k <= j

BoardFull == \A i \in Cells : Board[i] # ""

Observed == <<Board, Turn, GameStatus, winsX, winsO>>

\* The step handled a click (the history variable names the event handled).
ClickStep == lastEvent'.op = "click"

AcceptedStep == ClickStep /\ lastEvent'.accepted

\* ------------------------------------------------------------------ C1

\* C1: a click on a cell that already holds X or O changes none of Board,
\* Turn, GameStatus, winsX, winsO, whatever the game phase; after a first
\* move on cell 4, a second click on cell 4 leaves exactly one mark (X on
\* 4) on the board and Turn toggled once (O to move).
C1_OccupiedClickIsNoOp ==
    [][ /\ \A i \in Cells :
              (ClickStep /\ lastEvent'.index = i /\ Board[i] # "")
                  => (~lastEvent'.accepted /\ UNCHANGED Observed)
        /\ (trace = CentreScript /\ ClickStep /\ lastEvent'.index = 4)
              => /\ Board' = [EmptyBoard EXCEPT ![4] = "X"]
                 /\ Turn' = "O"
                 /\ moveCount' = 1
      ]_vars

C1_Witness ==
    /\ lastEvent = [op |-> "click", index |-> 4, accepted |-> FALSE]
    /\ trace = CentreScript
    /\ gameActive
    /\ Board[4] = "X"

\* ------------------------------------------------------------------ C2

\* C2: once GameStatus is Won or Draw, a click on any cell 0..8, empty or
\* not, changes none of Board, Turn, GameStatus, winsX, winsO; since this
\* holds of every step, it holds of any number of clicks up to a restart.
C2_ClickAfterEndIsNoOp ==
    [][ (GameStatus.tag \in {"Won", "Draw"} /\ ClickStep /\ lastEvent'.index \in Cells)
            => (~lastEvent'.accepted /\ UNCHANGED Observed)
      ]_vars

C2_Witness ==
    /\ GameStatus.tag = "Won"
    /\ lastEvent.op = "click"
    /\ ~lastEvent.accepted
    /\ lastEvent.index \in Cells
    /\ Board[lastEvent.index] = ""

\* ------------------------------------------------------------------ C3

\* C3: a restart, from whatever state, yields nine Empty cells, Turn = X and
\* GameStatus = InProgress, and leaves winsX and winsO as they were.
C3_RestartResetsAllButScore ==
    [][ lastEvent'.op = "restart"
            => /\ Board' = [i \in 0 .. 8 |-> ""]
               /\ Turn' = "X"
               /\ GameStatus'.tag = "InProgress"
               /\ winsX' = winsX
               /\ winsO' = winsO
      ]_vars

C3_Witness ==
    /\ lastEvent.op = "restart"
    /\ winsX + winsO > 0
    /\ Board = EmptyBoard

\* ------------------------------------------------------------------ C4

\* C4: neither counter ever decreases; a step from InProgress to Won adds
\* exactly 1 to exactly one counter; every other step leaves both alone;
\* winsX + winsO is the number of Won outcomes reached so far.
C4_ScoreCountsWins ==
    /\ [](winsX + winsO = wonCount)
    /\ [][ /\ winsX' >= winsX
           /\ winsO' >= winsO
           /\ IF GameStatus.tag = "InProgress" /\ GameStatus'.tag = "Won"
              THEN \/ winsX' = winsX + 1 /\ winsO' = winsO
                   \/ winsX' = winsX /\ winsO' = winsO + 1
              ELSE winsX' = winsX /\ winsO' = winsO
         ]_vars

C4_Witness ==
    /\ wonCount = 2
    /\ winsX = 1
    /\ winsO = 1
    /\ lastEvent.op = "click"
    /\ lastEvent.accepted

\* ------------------------------------------------------------------ C5

\* C5: the k-th accepted move since the last restart fills an Empty cell with
\* X when k is odd and with O when k is even; a rejected click changes
\* neither Turn nor the count; an accepted move toggles Turn exactly when
\* the game is still InProgress after it.
C5_MarksAlternate ==
    [][ /\ AcceptedStep
            => LET i == lastEvent'.index
               IN  /\ i \in Cells
                   /\ Board[i] = ""
                   /\ Board'[i] = (IF moveCount' % 2 = 1 THEN "X" ELSE "O")
                   /\ \A j \in Cells \ {i} : Board'[j] = Board[j]
                   /\ (Turn' # Turn) <=> (GameStatus'.tag = "InProgress")
        /\ (ClickStep /\ ~lastEvent'.accepted)
            => (Turn' = Turn /\ moveCount' = moveCount /\ Board' = Board)
      ]_vars

C5_Witness ==
    /\ lastEvent.op = "click"
    /\ lastEvent.accepted
    /\ moveCount = 4
    /\ Board[lastEvent.index] = "O"
    /\ Turn = "X"

\* ------------------------------------------------------------------ C6

\* C6: when nine accepted moves have filled the board and no winning triple
\* holds three equal marks, GameStatus is Draw and both counters are what
\* they were at the start of the game; the moves 0,1,2,4,3,5,7,6,8 are such
\* a game.
C6_FullBoardWithoutLineIsDraw ==
    /\ (moveCount = 9 /\ BoardFull /\ AlignedSet = {})
           => (GameStatus.tag = "Draw" /\ <<winsX, winsO>> = gameStartScore)
    /\ trace = DrawScript
           => (BoardFull /\ AlignedSet = {} /\ GameStatus.tag = "Draw"
               /\ <<winsX, winsO>> = gameStartScore)

C6_Witness ==
    /\ trace = DrawScript
    /\ lastEvent = [op |-> "click", index |-> 8, accepted |-> TRUE]
    /\ GameStatus.tag = "Draw"

\* ------------------------------------------------------------------ C7

\* C7: for each winning triple T and each mark m, when the cells holding m
\* are exactly those of T (the opponent's marks lie outside T), GameStatus
\* is Won(m, T), m's counter is one more than at the start of the game and
\* the other counter is what it was.
C7_TripleWins ==
    \A k \in 1 .. Len(Triples) : \A m \in Players :
        MarkedBy(m) = Triples[k]
            => /\ GameStatus = [tag |-> "Won", mark |-> m, triple |-> Triples[k]]
               /\ <<winsX, winsO>> =
                      IF m = "X"
                      THEN <<gameStartScore[1] + 1, gameStartScore[2]>>
                      ELSE <<gameStartScore[1], gameStartScore[2] + 1>>

C7_Witness ==
    /\ MarkedBy("O") = {2, 4, 6}
    /\ GameStatus = [tag |-> "Won", mark |-> "O", triple |-> {2, 4, 6}]
    /\ winsO = gameStartScore[2] + 1
    /\ lastEvent.op = "click"
    /\ lastEvent.accepted

\* ------------------------------------------------------------------ C8

\* C8 as stated: after every accepted move at most one winning triple holds
\* three equal non-Empty marks.
C8_AtMostOneAligned ==
    (lastEvent.op = "click" /\ lastEvent.accepted) => Cardinality(AlignedSet) <= 1

\* C8 as amended: after every accepted move at most two winning triples hold
\* three equal non-Empty marks; two are aligned only after X's ninth move has
\* filled the board, both hold X and both contain the cell just played, and
\* GameStatus names the first of them in enumeration order.
C8_AtMostTwoAligned ==
    (lastEvent.op = "click" /\ lastEvent.accepted)
        => /\ Cardinality(AlignedSet) <= 2
           /\ Cardinality(AlignedSet) = 2
                 => /\ moveCount = 9
                    /\ BoardFull
                    /\ \A k \in AlignedSet :
                           /\ Triples[k] \subseteq MarkedBy("X")
                           /\ lastEvent.index \in Triples[k]
                    /\ GameStatus =
                           [tag |-> "Won", mark |-> "X", triple |-> Triples[FirstAligned]]

C8_Witness ==
    /\ lastEvent.op = "click"
    /\ lastEvent.accepted
    /\ Cardinality(AlignedSet) = 2
    /\ GameStatus.tag = "Won"

\* ------------------------------------------------------------------ C9

\* C9: a click whose index is outside 0..8 (-1, 9, NaN) is rejected in every
\* state: Board keeps its nine cells and none of Board, Turn, GameStatus,
\* winsX, winsO changes.
C9_OutOfRangeClickIsNoOp ==
    [][ (ClickStep /\ lastEvent'.index \notin 0 .. 8)
            => /\ ~lastEvent'.accepted
               /\ UNCHANGED Observed
               /\ DOMAIN Board' = 0 .. 8
      ]_vars

C9_Witness ==
    /\ lastEvent.op = "click"
    /\ lastEvent.index = -1
    /\ ~lastEvent.accepted
    /\ gameActive
    /\ moveCount = 3

\* ------------------------------------------------------------------ C10

\* C10: after an accepted move GameStatus is Won exactly when some winning
\* triple holds three equal non-Empty marks, and then it is Won(m, T) with T
\* the first such triple in the order rows, columns, diagonals and m the
\* mark on T; the moves 0,3,1,4,2 give Won(X, {0,1,2}) and, from the fresh
\* page, winsX = 1.
C10_WonIffFirstAligned ==
    /\ (lastEvent.op = "click" /\ lastEvent.accepted)
           => /\ (GameStatus.tag = "Won") <=> (AlignedSet # {})
              /\ AlignedSet # {}
                    => GameStatus =
                           [tag |-> "Won",
                            mark |-> CHOOSE m \in Players :
                                         Triples[FirstAligned] \subseteq MarkedBy(m),
                            triple |-> Triples[FirstAligned]]
    /\ trace = WinScript
           => /\ GameStatus = [tag |-> "Won", mark |-> "X", triple |-> {0, 1, 2}]
              /\ winsX = gameStartScore[1] + 1
              /\ gameStartScore = <<0, 0>> => winsX = 1

C10_Witness ==
    /\ trace = WinScript
    /\ gameStartScore = <<0, 0>>
    /\ winsX = 1
    /\ GameStatus = [tag |-> "Won", mark |-> "X", triple |-> {0, 1, 2}]
    /\ lastEvent = [op |-> "click", index |-> 2, accepted |-> TRUE]

\* ------------------------------------------------------------------ C11

\* C11: Board always has exactly the nine cells 0..8; a click never changes
\* a cell that holds X or O (neither to Empty nor to the other mark); a step
\* that empties a cell is a restart.
C11_MarksStayUntilRestart ==
    /\ [](DOMAIN Board = 0 .. 8 /\ \A i \in 0 .. 8 : Board[i] \in {"", "X", "O"})
    /\ [][ /\ ClickStep => \A i \in 0 .. 8 : Board[i] # "" => Board'[i] = Board[i]
           /\ (\E i \in 0 .. 8 : Board[i] # "" /\ Board'[i] # Board[i])
                 => (lastEvent'.op = "restart" /\ Board' = [i \in 0 .. 8 |-> ""])
         ]_vars

C11_Witness ==
    /\ lastEvent.op = "click"
    /\ ~lastEvent.accepted
    /\ lastEvent.index \in Cells
    /\ gameActive
    /\ Board[lastEvent.index] = "X"
    /\ Turn = "O"

\* ------------------------------------------------------------------ C12

\* C12: GameStatus agrees with Board in every state: InProgress iff no
\* triple is aligned and some cell is Empty, Won iff some triple is
\* aligned, Draw iff no triple is aligned and no cell is Empty.
C12_StatusMatchesBoard ==
    /\ (GameStatus.tag = "InProgress") <=> (AlignedSet = {} /\ ~BoardFull)
    /\ (GameStatus.tag = "Won") <=> (AlignedSet # {})
    /\ (GameStatus.tag = "Draw") <=> (AlignedSet = {} /\ BoardFull)

C12_Witness ==
    /\ GameStatus.tag = "InProgress"
    /\ moveCount = 8
    /\ AlignedSet = {}
    /\ lastEvent.op = "click"
    /\ lastEvent.accepted

\* ------------------------------------------------------------------ C13

\* C13: when the move that fills the last Empty cell also completes a
\* triple the outcome is Won, not Draw: the mover's counter is one more than
\* at the start of the game and the triple is highlighted.
C13_WinBeforeDraw ==
    (BoardFull /\ AlignedSet # {})
        => /\ GameStatus.tag = "Won"
           /\ statusDisplay # "Game ended in a draw!"
           /\ <<winsX, winsO>> = <<gameStartScore[1] + 1, gameStartScore[2]>>
           /\ \E k \in AlignedSet : Highlighted = Triples[k]

C13_Witness ==
    /\ BoardFull
    /\ Cardinality(AlignedSet) = 1
    /\ moveCount = 9
    /\ GameStatus.tag = "Won"
    /\ lastEvent.op = "click"
    /\ lastEvent.accepted

\* ------------------------------------------------------------------ C14

\* The mark placed by the last accepted move of the game: X on odd counts.
LastMover == IF moveCount % 2 = 1 THEN "X" ELSE "O"

\* C14: on every step from InProgress to Won the player whose counter goes
\* up and whom the win message names is the player to move, that player's
\* mark is on the cell just played and on all three highlighted cells, and
\* Turn is not toggled; hence in every Won state Turn is the winner.
C14_WinnerIsMover ==
    /\ [](GameStatus.tag = "Won"
             => /\ Turn = GameStatus.mark
                /\ Highlighted # {}
                /\ Highlighted \subseteq MarkedBy(Turn))
    /\ [][ (GameStatus.tag = "InProgress" /\ GameStatus'.tag = "Won")
              => /\ Turn' = Turn
                 /\ Board'[lastEvent'.index] = Turn
                 /\ statusDisplay' =
                        (IF Turn = "X" THEN "Player X has won!" ELSE "Player O has won!")
                 /\ <<winsX', winsO'>> =
                        (IF Turn = "X" THEN <<winsX + 1, winsO>> ELSE <<winsX, winsO + 1>>)
                 /\ \E k \in 1 .. Len(Triples) :
                        /\ Highlighted' = Triples[k]
                        /\ \A c \in Triples[k] : Board'[c] = Turn
         ]_vars

C14_Witness ==
    /\ GameStatus = [tag |-> "Won", mark |-> "O", triple |-> {3, 4, 5}]
    /\ Turn = "O"
    /\ winsO = gameStartScore[2] + 1
    /\ lastEvent = [op |-> "click", index |-> 4, accepted |-> TRUE]

\* ------------------------------------------------------------------ C15

\* C15: no cell is highlighted in an InProgress or Draw state; in a Won
\* state the highlighted cells are exactly the three of the first aligned
\* triple in enumeration order, also when two triples are aligned; a
\* rejected click leaves the highlight as it is and a restart clears it.
C15_HighlightIsFirstTriple ==
    /\ [](IF AlignedSet # {} /\ ~gameActive
          THEN Highlighted = Triples[FirstAligned]
          ELSE Highlighted = {})
    /\ [][ /\ (ClickStep /\ ~lastEvent'.accepted) => Highlighted' = Highlighted
           /\ lastEvent'.op = "restart" => Highlighted' = {}
         ]_vars

C15_Witness ==
    /\ Cardinality(AlignedSet) = 2
    /\ Highlighted = Triples[FirstAligned]
    /\ Cardinality(Highlighted) = 3
    /\ lastEvent.op = "click"
    /\ ~lastEvent.accepted

\* ------------------------------------------------------------------ C16

\* C16: the status line reads "It's {Turn}'s turn" while the game is in
\* progress (X right after a restart), "Player {mark} has won!" with the
\* mark of the aligned triple once a triple is aligned, and "Game ended in
\* a draw!" on a full board without aligned triple; a rejected click never
\* changes it.
C16_StatusTextMatches ==
    /\ [](/\ gameActive
             => statusDisplay = (IF Turn = "X" THEN "It's X's turn" ELSE "It's O's turn")
          /\ (~gameActive /\ AlignedSet # {})
             => statusDisplay =
                    (IF Triples[FirstAligned] \subseteq MarkedBy("X")
                     THEN "Player X has won!" ELSE "Player O has won!")
          /\ (~gameActive /\ AlignedSet = {})
             => (statusDisplay = "Game ended in a draw!" /\ BoardFull)
          /\ lastEvent.op = "restart" => statusDisplay = "It's X's turn")
    /\ [][ (ClickStep /\ ~lastEvent'.accepted) => statusDisplay' = statusDisplay ]_vars

C16_Witness ==
    /\ statusDisplay = "Game ended in a draw!"
    /\ ~gameActive
    /\ AlignedSet = {}
    /\ lastEvent.op = "click"
    /\ ~lastEvent.accepted

\* ------------------------------------------------------------------ C17

\* C17: the number of X cells minus the number of O cells is 0 or 1; while
\* the game is in progress Turn is X iff the counts are equal and O iff X
\* has one more; a Draw board holds 5 X and 4 O and Turn is X.
C17_MarkCounts ==
    LET nx == Cardinality(MarkedBy("X"))
        no == Cardinality(MarkedBy("O"))
    IN  /\ nx - no \in {0, 1}
        /\ GameStatus.tag = "InProgress"
              => /\ (Turn = "X") <=> (nx = no)
                 /\ (Turn = "O") <=> (nx = no + 1)
        /\ GameStatus.tag = "Draw" => (nx = 5 /\ no = 4 /\ Turn = "X")

C17_Witness ==
    /\ GameStatus.tag = "Draw"
    /\ Cardinality(MarkedBy("X")) = 5
    /\ Cardinality(MarkedBy("O")) = 4
    /\ Turn = "X"

\* ------------------------------------------------------------------ C18

\* C18: no board holds both a triple of X and a triple of O; every aligned
\* triple carries the mark of the winner, who placed the last accepted move.
C18_OneWinner ==
    /\ ~(/\ \E k \in AlignedSet : Triples[k] \subseteq MarkedBy("X")
         /\ \E k \in AlignedSet : Triples[k] \subseteq MarkedBy("O"))
    /\ \A k \in AlignedSet :
           /\ GameStatus.tag = "Won"
           /\ Triples[k] \subseteq MarkedBy(GameStatus.mark)
           /\ GameStatus.mark = LastMover
    /\ (lastEvent.op = "click" /\ lastEvent.accepted)
           => Board[lastEvent.index] = LastMover

C18_Witness ==
    /\ GameStatus.tag = "Won"
    /\ GameStatus.mark = "O"
    /\ moveCount = 8
    /\ Cardinality(MarkedBy("X")) = 4
    /\ lastEvent.op = "click"
    /\ lastEvent.accepted

\* ------------------------------------------------------------------ C19

\* C19: at most 9 clicks are accepted between two restarts; while the game
\* is InProgress a click on an Empty cell is accepted and marks the cell;
\* and, clicks on Empty cells being made as long as they are possible and
\* no restart intervening, the game ends up in Won or Draw and stays there.
C19_GameTerminates ==
    /\ [](moveCount <= 9)
    /\ [][ \A i \in Cells :
              (ClickStep /\ lastEvent'.index = i
                 /\ GameStatus.tag = "InProgress" /\ Board[i] = "")
                  => (lastEvent'.accepted /\ Board'[i] # "" /\ moveCount' = moveCount + 1)
         ]_vars
    /\ <>[](GameStatus.tag \in {"Won", "Draw"})

C19_Witness ==
    /\ GameStatus.tag = "Draw"
    /\ moveCount = 9
    /\ lastEvent = [op |-> "click", index |-> 0, accepted |-> TRUE]

\* ------------------------------------------------------------------ C20

\* C20: in every InProgress state exactly one of the classes turn-x and
\* turn-o is on the board and it names Turn; in every Won or Draw state
\* neither is; right after a restart exactly turn-x is.
C20_TurnIndicatorInStep ==
    /\ GameStatus.tag = "InProgress"
          => boardClasses = (IF Turn = "X" THEN {"turn-x"} ELSE {"turn-o"})
    /\ GameStatus.tag \in {"Won", "Draw"}
          => boardClasses \cap {"turn-x", "turn-o"} = {}
    /\ lastEvent.op = "restart" => boardClasses = {"turn-x"}

C20_Witness ==
    /\ GameStatus.tag = "InProgress"
    /\ Turn = "O"
    /\ boardClasses = {"turn-o"}
    /\ moveCount = 3

====
